---- MODULE Spec2Model ----
(***************************************************************************)
(* Drive sanitization engine of src-tauri/src/main.rs: volume enumeration  *)
(* (detect_drives), the safety pre-flight (check_safety) and the confirmed *)
(* three-pass overwrite (sanitize_drive).                                   *)
(*                                                                         *)
(* The host (its platform, what it has mounted, which volume it booted     *)
(* from) and the filesystem are the environment; the commands are the      *)
(* program.  A sanitize_drive call is an async command, so it is modelled  *)
(* one I/O step at a time; detect_drives and check_safety are synchronous  *)
(* and are one step each.                                                   *)
(***************************************************************************)
EXTENDS Integers, Sequences, FiniteSets, TLC

VARIABLES
    host,     \* the machine: platform, mounted volumes, boot volume
    fs,       \* scratch path -> content of the file there, or NoFile
    reply,    \* what the last synchronous command returned
    pc,       \* per sanitize_drive call: where it is
    args,     \* per call: [drive_letter, confirm]
    drives,   \* per call: the Vec<DriveInfo> of its own enumeration
    file,     \* per call: the open handle [path, pos], or NoHandle
    pass_num, \* per call: index of the running pass, 0..3
    iter,     \* per call: writes already issued in the running pass
    buffer,   \* per call: fill of the buffer of the running pass
    result,   \* per call: the returned Result<String, String>, or Pending
    log       \* per call: the environment operations it has performed

vars == <<host, fs, reply, pc, args, drives, file, pass_num, iter, buffer,
          result, log>>

callVars == <<pc, args, drives, file, pass_num, iter, buffer, result, log>>

----------------------------------------------------------------------------
(* Bounds of the model. *)

\* most volumes a host has mounted at once
MaxVolumes == 2

\* the sanitize_drive calls a behaviour can hold
CallIds == {1, 2}

\* blocks a nearly full volume still has room for
RaceRoom == 2

\* bits of GetLogicalDrives the modelled Windows hosts can have set: C, D, E
DriveBits == {2, 3, 4}

\* directory names the modelled /Volumes can hold
MacNames == {"Macintosh HD", "Macintosh HD - Data", "Untitled"}

\* directory names the modelled /mnt can hold
LinuxNames == {"usb", "data"}

\* an identifier no modelled host enumerates
UnknownLetter == "Z:\\"

\* texts of std::io::Error the filesystem can answer with
IoErrors == {"No space left on device (os error 28)",
             "Permission denied (os error 13)"}

\* text of the io::Error of a write to a full volume
NoSpace == "No space left on device (os error 28)"

\* text of the io::Error of remove_file on a path without a file
NoSuchFile == "No such file or directory (os error 2)"

\* contents rng.random() can fill the pass-3 buffer with
RandomFills == {"random-a", "random-b"}

----------------------------------------------------------------------------
(* Program constants. *)

buffer_size == 1048576

iterations == 100

Passes == 3

MiB == 1048576

----------------------------------------------------------------------------
(* Result<T, String> *)

Ok(v) == [ok |-> TRUE, val |-> v]

Err(s) == [ok |-> FALSE, val |-> s]

Pending == [ok |-> FALSE, val |-> "<pending>"]

NoFile == [exists |-> FALSE, blocks |-> <<>>]

NoHandle == [path |-> "", pos |-> 0]

NoReply == [cmd |-> "", arg |-> "", value |-> Pending]

----------------------------------------------------------------------------
(* Strings *)

\* str::contains
Contains(s, t) ==
    \E i \in 1..(Len(s) - Len(t) + 1) : SubSeq(s, i, i + Len(t) - 1) = t

\* char::from(b'A' + i as u8)
CharFromA(i) == SubSeq("ABCDEFGHIJKLMNOPQRSTUVWXYZ", i + 1, i + 1)

\* mask & (1 << i) != 0
BitSet(mask, i) == (mask \div (2 ^ i)) % 2 = 1

\* the u32 with exactly the bits of S set
MaskOf(S) ==
    LET RECURSIVE Sum(_)
        Sum(T) == IF T = {} THEN 0
                  ELSE LET b == CHOOSE x \in T : TRUE
                       IN (2 ^ b) + Sum(T \ {b})
    IN Sum(S)

----------------------------------------------------------------------------
(* The host *)

\* drive designator of bit i, as line 106 formats it
WinLetter(i) == CharFromA(i) \o ":\\"

\* what GetDiskFreeSpaceExW reports for a drive that answers
WinTotalBytes(i) == IF i = 2 THEN 1024 * MiB ELSE 50 * MiB

WinFreeBytes(i) == IF i = 2 THEN 100 * MiB ELSE 50 * MiB

\* the sequences without repetition over S of length at most n
RECURSIVE Listings(_, _)
Listings(S, n) ==
    IF n = 0 \/ S = {} THEN {<<>>}
    ELSE {<<>>} \cup
         UNION {{<<x>> \o l : l \in Listings(S \ {x}, n - 1)} : x \in S}

Range(s) == {s[i] : i \in DOMAIN s}

\* Every host record also says how its storage behaves: `faults` are the
\* error texts an I/O operation can fail with out of the blue, and the
\* volumes in `limited` have room for `room` blocks in their scratch file.

\* Windows: GetLogicalDrives gives a mask, 0 when the call fails; `ready`
\* are the drives that answer GetVolumeInformationW and GetDiskFreeSpaceExW;
\* the OS is installed on one of the drives.
WindowsHosts ==
    UNION {{[os |-> "windows", drives_mask |-> m, read_dir_ok |-> TRUE,
             listing |-> <<>>, ready |-> R, boot |-> b,
             faults |-> IoErrors, limited |-> {}, room |-> 0] :
                m \in {MaskOf(S), 0},
                R \in SUBSET {WinLetter(i) : i \in S},
                b \in {WinLetter(i) : i \in S}} :
           S \in {T \in SUBSET DriveBits :
                     T # {} /\ Cardinality(T) <= MaxVolumes}}

\* entries of a volumes directory that are files, not mounted volumes
NotDirNames == {".DS_Store"}

\* Path::is_dir of a listed entry
IsDir(name) == name \notin NotDirNames

\* macOS: /Volumes lists the mounted volumes, the boot volume among them
\* under the name the user gave it; fs::read_dir can fail.
MacHosts ==
    UNION {{[os |-> "macos", drives_mask |-> 0, read_dir_ok |-> k,
             listing |-> l, ready |-> {}, boot |-> "/Volumes/" \o l[i],
             faults |-> IoErrors, limited |-> {}, room |-> 0] :
                k \in BOOLEAN, i \in {j \in DOMAIN l : IsDir(l[j])}} :
           l \in Listings(MacNames \cup NotDirNames, MaxVolumes)}

\* Linux: /mnt lists the extra mounts; the OS is on "/", outside /mnt;
\* fs::read_dir can fail.
LinuxHosts ==
    {[os |-> "linux", drives_mask |-> 0, read_dir_ok |-> k,
      listing |-> l, ready |-> {}, boot |-> "/",
      faults |-> IoErrors, limited |-> {}, room |-> 0] :
        k \in BOOLEAN, l \in Listings(LinuxNames, MaxVolumes)}

Hosts == WindowsHosts \cup MacHosts \cup LinuxHosts

\* the platform's enumeration primitive fails on the host: GetLogicalDrives
\* returns 0 (line 100), fs::read_dir returns Err (lines 53 and 168)
EnumerationFailed(h) ==
    IF h.os = "windows" THEN h.drives_mask = 0 ELSE ~h.read_dir_ok

----------------------------------------------------------------------------
(* detect_drives *)

\* lines 53-90: one DriveInfo per directory entry of /Volumes
MacDriveInfo(name) ==
    [letter |-> "/Volumes/" \o name,
     size |-> 0,
     free_space |-> 0,
     label |-> name,
     file_system |-> "APFS/HFS+",
     serial_number |-> 0,
     is_system |-> (name = "Macintosh HD"
                    \/ Contains("/Volumes/" \o name, "Macintosh HD"))]

\* lines 104-160: one DriveInfo per set bit of the mask
WinDriveInfo(h, i) ==
    LET drive_letter == WinLetter(i)
        answers == drive_letter \in h.ready
    IN [letter |-> drive_letter,
        size |-> IF answers THEN WinTotalBytes(i) ELSE 0,
        free_space |-> IF answers THEN WinFreeBytes(i) ELSE 0,
        label |-> IF answers THEN "VOL_" \o CharFromA(i) ELSE "",
        file_system |-> IF answers THEN "NTFS" ELSE "",
        serial_number |-> IF answers THEN 1000 + i ELSE 0,
        is_system |-> (drive_letter = "C:\\")]

\* lines 168-192: one DriveInfo per directory entry of /mnt
LinuxDriveInfo(name) ==
    [letter |-> "/mnt/" \o name,
     size |-> 0,
     free_space |-> 0,
     label |-> name,
     file_system |-> "ext4",
     serial_number |-> 0,
     is_system |-> FALSE]

\* the loop `for i in 0..26` from bit i on
RECURSIVE WinScan(_, _)
WinScan(h, i) ==
    IF i >= 26 THEN <<>>
    ELSE IF BitSet(h.drives_mask, i)
         THEN <<WinDriveInfo(h, i)>> \o WinScan(h, i + 1)
         ELSE WinScan(h, i + 1)

\* the loop `for entry in entries` of lines 54-88 over the rest of a listing
RECURSIVE MacScan(_)
MacScan(l) ==
    IF l = <<>> THEN <<>>
    ELSE IF IsDir(Head(l))
         THEN <<MacDriveInfo(Head(l))>> \o MacScan(Tail(l))
         ELSE MacScan(Tail(l))

\* the loop `for entry in entries` of lines 169-191 over the rest of a listing
RECURSIVE LinuxScan(_)
LinuxScan(l) ==
    IF l = <<>> THEN <<>>
    ELSE IF IsDir(Head(l))
         THEN <<LinuxDriveInfo(Head(l))>> \o LinuxScan(Tail(l))
         ELSE LinuxScan(Tail(l))

detect_drives(h) ==
    CASE h.os = "macos" ->
            IF h.read_dir_ok THEN Ok(MacScan(h.listing))
            ELSE Ok(<<>>)
      [] h.os = "windows" ->
            IF h.drives_mask = 0 THEN Err("Failed to get logical drives")
            ELSE Ok(WinScan(h, 0))
      [] h.os = "linux" ->
            IF h.read_dir_ok THEN Ok(LinuxScan(h.listing))
            ELSE Ok(<<>>)

\* drives.iter().find(|d| d.letter == drive_letter): index of the first
\* match, 0 for None
Find(ds, drive_letter) ==
    IF \E i \in DOMAIN ds : ds[i].letter = drive_letter
    THEN CHOOSE i \in DOMAIN ds :
            /\ ds[i].letter = drive_letter
            /\ \A j \in 1..(i - 1) : ds[j].letter # drive_letter
    ELSE 0

----------------------------------------------------------------------------
(* check_safety *)

\* check_safety without its is_system test
check_safety_unguarded(h, drive_letter) ==
    LET r == detect_drives(h)
    IN IF ~r.ok THEN Err(r.val)
       ELSE IF Find(r.val, drive_letter) # 0 THEN Ok(TRUE)
       ELSE Err("Drive not found")

\* lines 199-209
check_safety(h, drive_letter) ==
    LET r == detect_drives(h)
    IN IF ~r.ok THEN Err(r.val)
       ELSE LET k == Find(r.val, drive_letter)
            IN IF k # 0
               THEN IF r.val[k].is_system
                    THEN Err("Cannot sanitize system drive")
                    ELSE Ok(TRUE)
               ELSE Err("Drive not found")

----------------------------------------------------------------------------
(* The filesystem *)

\* one scratch path for every volume
TempFilePathShared(path) == "/temp_sanitize_file"

\* format!("{}/temp_sanitize_file", path)
TempFilePath(path) == path \o "/temp_sanitize_file"

\* the identifiers a host enumerates
Letters(h) ==
    LET r == detect_drives(h)
    IN IF r.ok THEN {r.val[i].letter : i \in DOMAIN r.val} ELSE {}

\* the identifiers a caller may pass on a host
Candidates(h) == Letters(h) \cup {h.boot, UnknownLetter}

\* one buffer-sized block of a file
Block(fill) == [fill |-> fill, bytes |-> buffer_size]

\* a file somebody else left under the scratch name
UserFile == [exists |-> TRUE, blocks |-> <<Block("user-data")>>]

\* fs::File::create: the file exists and is empty
Truncated == [exists |-> TRUE, blocks |-> <<>>]

\* the blocks of a file after block b is written at block index k (from 0)
WriteAt(blocks, k, b) ==
    [i \in 1..(IF k + 1 > Len(blocks) THEN k + 1 ELSE Len(blocks)) |->
        IF i = k + 1 THEN b
        ELSE IF i <= Len(blocks) THEN blocks[i]
        ELSE Block("hole")]

\* one operation a call performed on the environment: its name, whether it
\* succeeded, its argument (the error text when it failed) and the bytes it
\* wrote
Op(name, ok, what, bytes) ==
    [op |-> name, ok |-> ok, what |-> what, bytes |-> bytes]

----------------------------------------------------------------------------
(* Initial states *)

InitCalls(active) ==
    /\ pc = [c \in CallIds |-> IF c \in active THEN "idle" ELSE "unused"]
    /\ args = [c \in CallIds |-> [drive_letter |-> "", confirm |-> FALSE]]
    /\ drives = [c \in CallIds |-> <<>>]
    /\ file = [c \in CallIds |-> NoHandle]
    /\ pass_num = [c \in CallIds |-> 0]
    /\ iter = [c \in CallIds |-> 0]
    /\ buffer = [c \in CallIds |-> ""]
    /\ result = [c \in CallIds |-> Pending]
    /\ log = [c \in CallIds |-> <<>>]

Init ==
    /\ host \in Hosts
    /\ fs \in [{TempFilePath(l) : l \in Letters(host)} -> {NoFile, UserFile}]
    /\ Cardinality({p \in DOMAIN fs : fs[p].exists}) <= 1
    /\ reply = NoReply
    /\ InitCalls({1})

----------------------------------------------------------------------------
(* The synchronous commands *)

\* #[command] detect_drives
DetectDrives ==
    /\ reply' = [cmd |-> "detect_drives", arg |-> "",
                 value |-> detect_drives(host)]
    /\ UNCHANGED <<host, fs, callVars>>

\* a check_safety that probes the volume by creating the scratch file
CheckSafetyProbing ==
    \E drive_letter \in Candidates(host) :
        /\ reply' = [cmd |-> "check_safety", arg |-> drive_letter,
                     value |-> check_safety(host, drive_letter)]
        /\ fs' = IF drive_letter \in Letters(host)
                 THEN [fs EXCEPT ![TempFilePath(drive_letter)] = Truncated]
                 ELSE fs
        /\ UNCHANGED <<host, callVars>>

\* #[command] check_safety
CheckSafety ==
    \E drive_letter \in Candidates(host) :
        /\ reply' = [cmd |-> "check_safety", arg |-> drive_letter,
                     value |-> check_safety(host, drive_letter)]
        /\ UNCHANGED <<host, fs, callVars>>

----------------------------------------------------------------------------
(* sanitize_drive, one step at a time *)

\* `return`: the future completes and its locals, the handle among them,
\* are dropped
Return(c, r) ==
    /\ result' = [result EXCEPT ![c] = r]
    /\ pc' = [pc EXCEPT ![c] = "returned"]
    /\ file' = [file EXCEPT ![c] = NoHandle]

\* the command is invoked
Invoke(c) ==
    /\ pc[c] = "idle"
    /\ \E drive_letter \in Candidates(host), confirm \in BOOLEAN :
          args' = [args EXCEPT ![c] = [drive_letter |-> drive_letter,
                                       confirm |-> confirm]]
    /\ pc' = [pc EXCEPT ![c] = "requested"]
    /\ UNCHANGED <<host, fs, reply, drives, file, pass_num, iter, buffer,
                   result, log>>

\* the confirmation gate left open
UnconfirmedNever(confirm) == FALSE

\* line 213: `if !confirm`
Unconfirmed(confirm) == ~confirm

\* the confirmation gate moved behind the enumeration
SanitizeConfirmLate(c) ==
    /\ pc[c] = "requested"
    /\ log' = [log EXCEPT ![c] =
                  Append(@, Op("detect_drives", detect_drives(host).ok, "", 0))]
    /\ IF Unconfirmed(args[c].confirm)
       THEN Return(c, Err("Confirmation required to proceed"))
       ELSE /\ pc' = [pc EXCEPT ![c] = "check_path"]
            /\ UNCHANGED <<file, result>>
    /\ UNCHANGED <<host, fs, reply, args, drives, pass_num, iter, buffer>>

\* lines 213-215
SanitizeConfirm(c) ==
    /\ pc[c] = "requested"
    /\ IF Unconfirmed(args[c].confirm)
       THEN Return(c, Err("Confirmation required to proceed"))
       ELSE /\ pc' = [pc EXCEPT ![c] = "resolve"]
            /\ UNCHANGED <<file, result>>
    /\ UNCHANGED <<host, fs, reply, args, drives, pass_num, iter, buffer, log>>

\* the system-volume guard left open
SystemGuardNever(drive) == FALSE

\* the system-volume guard turned around
SystemGuardInverted(drive) == ~drive.is_system

\* line 219: `if drive.is_system`
SystemGuard(drive) == drive.is_system

\* lines 217-221 and 263-265
SanitizeResolve(c) ==
    /\ pc[c] = "resolve"
    /\ LET r == detect_drives(host)
           k == Find(r.val, args[c].drive_letter)
       IN /\ log' = [log EXCEPT ![c] =
                        Append(@, Op("detect_drives", r.ok, "", 0))]
          /\ IF ~r.ok
             THEN Return(c, Err(r.val)) /\ UNCHANGED drives
             ELSE /\ drives' = [drives EXCEPT ![c] = r.val]
                  /\ IF k = 0
                     THEN Return(c, Err("Drive not found"))
                     ELSE IF SystemGuard(r.val[k])
                     THEN Return(c, Err("Cannot sanitize system drive"))
                     ELSE /\ pc' = [pc EXCEPT ![c] = "check_path"]
                          /\ UNCHANGED <<file, result>>
    /\ UNCHANGED <<host, fs, reply, args, pass_num, iter, buffer>>

\* lines 223-226; whether the path still exists is the filesystem's answer
\* at that moment, not the enumeration's
SanitizeCheckPath(c) ==
    /\ pc[c] = "check_path"
    /\ LET path == args[c].drive_letter
       IN \E exists \in BOOLEAN :
            /\ log' = [log EXCEPT ![c] = Append(@, Op("exists", exists, path, 0))]
            /\ IF ~exists
               THEN Return(c, Err("Drive " \o path
                                   \o " not found or not accessible"))
               ELSE /\ pc' = [pc EXCEPT ![c] = "create"]
                    /\ UNCHANGED <<file, result>>
    /\ UNCHANGED <<host, fs, reply, args, drives, pass_num, iter, buffer>>

\* line 239: `for pass_num in 0..3`
MorePasses(n) == n < Passes

\* the write loop one round short
MoreWritesShort(i) == i < iterations - 1

\* line 246: `for _ in 0..iterations`
MoreWrites(i) == i < iterations

\* lines 231-232: File::create failed with e
CreateFailed(c, e) ==
    /\ log' = [log EXCEPT ![c] = Append(@, Op("create", FALSE, e, 0))]
    /\ Return(c, Err(e))
    /\ UNCHANGED <<fs, pass_num>>

\* lines 229-237 and the entry of the loop of line 239
SanitizeCreate(c) ==
    /\ pc[c] = "create"
    /\ LET temp_file_path == TempFilePath(args[c].drive_letter)
       IN \/ /\ fs' = [fs EXCEPT ![temp_file_path] = Truncated]
             /\ file' = [file EXCEPT ![c] = [path |-> temp_file_path, pos |-> 0]]
             /\ log' = [log EXCEPT ![c] =
                            Append(@, Op("create", TRUE, temp_file_path, 0))]
             /\ pass_num' = [pass_num EXCEPT ![c] = 0]
             /\ pc' = [pc EXCEPT ![c] = IF MorePasses(0) THEN "fill" ELSE "remove"]
             /\ UNCHANGED result
          \/ \E e \in host.faults : CreateFailed(c, e)
    /\ UNCHANGED <<host, reply, args, drives, iter, buffer>>

\* lines 240-244: the buffers the pass can get
PassBuffers(n) ==
    CASE n = 0 -> {"zeros"}
      [] n = 1 -> {"ones"}
      [] OTHER -> RandomFills

\* lines 240-244 and the entry of the loop of line 246
SanitizeFill(c) ==
    /\ pc[c] = "fill"
    /\ \E b \in PassBuffers(pass_num[c]) :
          buffer' = [buffer EXCEPT ![c] = b]
    /\ iter' = [iter EXCEPT ![c] = 0]
    /\ pc' = [pc EXCEPT ![c] = IF MoreWrites(0) THEN "write" ELSE "sync"]
    /\ UNCHANGED <<host, fs, reply, args, drives, file, pass_num, result, log>>

\* a failed write_all swallowed: the loop goes on
WriteFailedSwallowed(c, e) ==
    /\ log' = [log EXCEPT ![c] = Append(@, Op("write", FALSE, e, 0))]
    /\ iter' = [iter EXCEPT ![c] = @ + 1]
    /\ pc' = [pc EXCEPT ![c] =
                 IF MoreWrites(iter[c] + 1) THEN "write" ELSE "sync"]
    /\ UNCHANGED <<fs, file, result>>

\* a failed write_all that deletes the scratch file before it returns
WriteFailedCleanup(c, e) ==
    /\ log' = [log EXCEPT ![c] = Append(@, Op("write", FALSE, e, 0))]
    /\ Return(c, Err(e))
    /\ fs' = [fs EXCEPT ![file[c].path] = NoFile]
    /\ UNCHANGED iter

\* lines 247-249: write_all failed with e; the bytes of the failing block
\* that did reach the file are not tracked
WriteFailed(c, e) ==
    /\ log' = [log EXCEPT ![c] = Append(@, Op("write", FALSE, e, 0))]
    /\ Return(c, Err(e))
    /\ UNCHANGED <<fs, iter>>

\* the volume of the call can take a block at the position of its handle
HasRoom(c) ==
    \/ args[c].drive_letter \notin host.limited
    \/ file[c].pos < host.room
    \/ file[c].pos < Len(fs[file[c].path].blocks)

\* lines 246-250: one file.write_all(&buffer); a handle whose file was
\* unlinked meanwhile writes to a file no path leads to
SanitizeWrite(c) ==
    /\ pc[c] = "write"
    /\ \/ /\ HasRoom(c)
          /\ fs' = IF fs[file[c].path].exists
                   THEN [fs EXCEPT ![file[c].path].blocks =
                            WriteAt(@, file[c].pos, Block(buffer[c]))]
                   ELSE fs
          /\ file' = [file EXCEPT ![c].pos = @ + 1]
          /\ log' = [log EXCEPT ![c] =
                         Append(@, Op("write", TRUE, buffer[c], buffer_size))]
          /\ iter' = [iter EXCEPT ![c] = @ + 1]
          /\ pc' = [pc EXCEPT ![c] =
                       IF MoreWrites(iter[c] + 1) THEN "write" ELSE "sync"]
          /\ UNCHANGED result
       \/ /\ ~HasRoom(c)
          /\ WriteFailed(c, NoSpace)
       \/ \E e \in host.faults : WriteFailed(c, e)
    /\ UNCHANGED <<host, reply, args, drives, pass_num, buffer>>

\* a failed sync_all ignored: the next pass starts
SyncFailedIgnored(c, e) ==
    /\ log' = [log EXCEPT ![c] = Append(@, Op("sync_all", FALSE, e, 0))]
    /\ pass_num' = [pass_num EXCEPT ![c] = @ + 1]
    /\ pc' = [pc EXCEPT ![c] =
                 IF MorePasses(pass_num[c] + 1) THEN "fill" ELSE "remove"]
    /\ UNCHANGED <<file, result>>

\* lines 252-254: sync_all failed with e
SyncFailed(c, e) ==
    /\ log' = [log EXCEPT ![c] = Append(@, Op("sync_all", FALSE, e, 0))]
    /\ Return(c, Err(e))
    /\ UNCHANGED pass_num

\* lines 252-255: file.sync_all() and the step of the loop of line 239
SanitizeSync(c) ==
    /\ pc[c] = "sync"
    /\ \/ /\ log' = [log EXCEPT ![c] = Append(@, Op("sync_all", TRUE, "", 0))]
          /\ pass_num' = [pass_num EXCEPT ![c] = @ + 1]
          /\ pc' = [pc EXCEPT ![c] =
                       IF MorePasses(pass_num[c] + 1) THEN "fill" ELSE "remove"]
          /\ UNCHANGED <<file, result>>
       \/ \E e \in host.faults : SyncFailed(c, e)
    /\ UNCHANGED <<host, fs, reply, args, drives, iter, buffer>>

\* line 262: the number the summary states
ReportedMB == (iterations * buffer_size) \div (1024 * 1024)

\* line 262: the format! of the summary
SummaryText(path, mb) ==
    "Sanitized " \o path \o " with 3-pass overwrite method (limited to "
        \o ToString(mb) \o "MB)"

\* a failed remove_file ignored: the call reports success
RemoveFailedIgnored(c, e) ==
    /\ log' = [log EXCEPT ![c] = Append(@, Op("remove_file", FALSE, e, 0))]
    /\ Return(c, Ok(SummaryText(args[c].drive_letter, ReportedMB)))
    /\ UNCHANGED fs

\* lines 258-260: remove_file failed with e
RemoveFailed(c, e) ==
    /\ log' = [log EXCEPT ![c] = Append(@, Op("remove_file", FALSE, e, 0))]
    /\ Return(c, Err(e))
    /\ UNCHANGED fs

\* lines 257-262; remove_file of a path without a file fails
SanitizeRemove(c) ==
    /\ pc[c] = "remove"
    /\ LET temp_file_path == TempFilePath(args[c].drive_letter)
       IN \/ /\ fs[temp_file_path].exists
             /\ fs' = [fs EXCEPT ![temp_file_path] = NoFile]
             /\ log' = [log EXCEPT ![c] =
                            Append(@, Op("remove_file", TRUE, temp_file_path, 0))]
             /\ Return(c, Ok(SummaryText(args[c].drive_letter, ReportedMB)))
          \/ /\ ~fs[temp_file_path].exists
             /\ RemoveFailed(c, NoSuchFile)
          \/ \E e \in host.faults : RemoveFailed(c, e)
    /\ UNCHANGED <<host, reply, args, drives, pass_num, iter, buffer>>

\* one step of a call that has been invoked
Step(c) ==
    \/ SanitizeConfirm(c)
    \/ SanitizeResolve(c)
    \/ SanitizeCheckPath(c)
    \/ SanitizeCreate(c)
    \/ SanitizeFill(c)
    \/ SanitizeWrite(c)
    \/ SanitizeSync(c)
    \/ SanitizeRemove(c)

Sanitize(c) ==
    \/ Invoke(c)
    \/ Step(c)

Next == \E c \in CallIds : Sanitize(c)

Spec == Init /\ [][Next]_vars

\* the catalog on its own: a host and the synchronous commands on it
InitCatalog ==
    /\ host \in Hosts
    /\ fs = [p \in {TempFilePath(l) : l \in Letters(host)} |-> NoFile]
    /\ reply = NoReply
    /\ InitCalls({})

NextCatalog ==
    \/ DetectDrives
    \/ CheckSafety

SpecCatalog == InitCatalog /\ [][NextCatalog]_vars

\* the pre-flight check next to a sanitize call, on a few hosts: Windows
\* with C: and D: (or a failing GetLogicalDrives), macOS with the boot
\* volume and one more (or a failing read_dir)
PreflightHosts ==
    {h \in WindowsHosts : h.boot = "C:\\" /\ h.ready = {"C:\\", "D:\\"}}
    \cup {h \in MacHosts : h.listing = <<"Macintosh HD", "Untitled">>
                              /\ h.boot = "/Volumes/Macintosh HD"}

InitPreflight ==
    /\ host \in PreflightHosts
    /\ fs \in [{TempFilePath(l) : l \in Letters(host)} -> {NoFile, UserFile}]
    /\ Cardinality({p \in DOMAIN fs : fs[p].exists}) <= 1
    /\ reply = NoReply
    /\ InitCalls({1})

NextPreflight ==
    \/ CheckSafety
    \/ \E c \in CallIds : Sanitize(c)

SpecPreflight == InitPreflight /\ [][NextPreflight]_vars

\* two calls already invoked, both confirmed
InitRequested(letter1, letter2) ==
    /\ pc = [c \in CallIds |-> "requested"]
    /\ args = [c \in CallIds |->
                 [drive_letter |-> IF c = 1 THEN letter1 ELSE letter2,
                  confirm |-> TRUE]]
    /\ drives = [c \in CallIds |-> <<>>]
    /\ file = [c \in CallIds |-> NoHandle]
    /\ pass_num = [c \in CallIds |-> 0]
    /\ iter = [c \in CallIds |-> 0]
    /\ buffer = [c \in CallIds |-> ""]
    /\ result = [c \in CallIds |-> Pending]
    /\ log = [c \in CallIds |-> <<>>]

\* a Linux host with a nearly full stick and a roomy disk under /mnt
RaceHosts ==
    {[h EXCEPT !.limited = {"/mnt/usb"}, !.room = RaceRoom] :
        h \in {x \in LinuxHosts : x.listing = <<"usb", "data">>
                                    /\ x.read_dir_ok}}

\* two concurrent calls, the first on the stick, the second on the stick
\* or on the disk
InitRace ==
    /\ host \in RaceHosts
    /\ fs \in [{TempFilePath(l) : l \in Letters(host)} -> {NoFile, UserFile}]
    /\ reply = NoReply
    /\ \E letter2 \in Letters(host) : InitRequested("/mnt/usb", letter2)

NextConcurrent == \E c \in CallIds : Step(c)

SpecRace == InitRace /\ [][NextConcurrent]_vars

\* the same host with room everywhere and storage that raises no error of
\* its own
PairHosts ==
    {[h EXCEPT !.faults = {}] :
        h \in {x \in LinuxHosts : x.listing = <<"usb", "data">>
                                    /\ x.read_dir_ok}}

\* two concurrent calls on the two volumes
InitPair ==
    /\ host \in PairHosts
    /\ fs = [p \in {TempFilePath(l) : l \in Letters(host)} |-> NoFile]
    /\ reply = NoReply
    /\ InitRequested("/mnt/usb", "/mnt/data")

SpecPair == InitPair /\ [][NextConcurrent]_vars

TypeOK == \A c \in CallIds : pc[c] \in {"unused", "idle", "requested", "resolve",
              "check_path", "create", "fill", "write", "sync", "remove", "returned"}

----------------------------------------------------------------------------
(* Properties *)

\* the operations that touch the scratch file
ScratchOps == {"create", "write", "sync_all", "remove_file"}

\* the call has passed its confirmation gate or returned at it
PastConfirm(c) == pc[c] \notin {"unused", "idle", "requested"}

\* index in the call's own enumeration of the volume it matched, 0 for none
Matched(c) == Find(drives[c], args[c].drive_letter)

\* C1: a sanitize call whose enumeration matched a volume flagged is_system
\* has returned "Cannot sanitize system drive" and has performed no create,
\* write, flush or delete of a scratch file.
C1_SystemVolumeNeverOverwritten ==
    \A c \in CallIds :
        (Matched(c) # 0 /\ drives[c][Matched(c)].is_system) =>
            /\ pc[c] = "returned"
            /\ result[c] = Err("Cannot sanitize system drive")
            /\ file[c] = NoHandle
            /\ \A i \in DOMAIN log[c] : log[c][i].op \notin ScratchOps

\* a confirmed call on a volume flagged is_system has returned
C1_Witness ==
    \E c \in CallIds :
        /\ pc[c] = "returned"
        /\ args[c].confirm
        /\ Matched(c) # 0
        /\ drives[c][Matched(c)].is_system

\* C2: every descriptor detect_drives returns has is_system true exactly
\* when its volume is the one hosting the running operating system.
C2_IsSystemIffHostsOS ==
    (reply.cmd = "detect_drives" /\ reply.value.ok) =>
        \A i \in DOMAIN reply.value.val :
            reply.value.val[i].is_system
                <=> (reply.value.val[i].letter = host.boot)

\* C3: a sanitize call with confirm = false returns "Confirmation required
\* to proceed" with no enumeration and no filesystem operation performed.
C3_UnconfirmedTouchesNothing ==
    \A c \in CallIds :
        (PastConfirm(c) /\ ~args[c].confirm) =>
            /\ pc[c] = "returned"
            /\ result[c] = Err("Confirmation required to proceed")
            /\ log[c] = <<>>
            /\ drives[c] = <<>>
            /\ file[c] = NoHandle

\* an unconfirmed call on the identifier of a flagged volume has returned
C3_Witness ==
    \E c \in CallIds :
        /\ pc[c] = "returned"
        /\ ~args[c].confirm
        /\ ~check_safety(host, args[c].drive_letter).ok
        /\ check_safety(host, args[c].drive_letter).val
              = "Cannot sanitize system drive"

\* C4: when the enumeration yields a list, check_safety answers "Cannot
\* sanitize system drive" if the volume with exactly that identifier is
\* flagged is_system, "Drive not found" if no volume has that identifier,
\* Ok(true) otherwise, and never Ok(false).
C4_CheckSafetyTrichotomy ==
    (reply.cmd = "check_safety" /\ detect_drives(host).ok) =>
        LET ds == detect_drives(host).val
            same == {i \in DOMAIN ds : ds[i].letter = reply.arg}
            v == reply.value
        IN /\ (\E i \in same : ds[i].is_system)
                => (~v.ok /\ v.val = "Cannot sanitize system drive")
           /\ (same = {})
                => (~v.ok /\ v.val = "Drive not found")
           /\ (same # {} /\ \A i \in same : ~ds[i].is_system)
                => (v.ok /\ v.val = TRUE)
           /\ v.ok => v.val = TRUE

\* check_safety was asked about a flagged volume among several
C4_Witness ==
    /\ reply.cmd = "check_safety"
    /\ ~reply.value.ok
    /\ reply.value.val = "Cannot sanitize system drive"
    /\ Cardinality(Letters(host)) > 1

\* C9: one detect_drives result holds at most one descriptor with
\* is_system = true.
C9_AtMostOneSystemVolume ==
    (reply.cmd = "detect_drives" /\ reply.value.ok) =>
        Cardinality({i \in DOMAIN reply.value.val :
                        reply.value.val[i].is_system}) <= 1

\* the successful operations `name` in the call's log
Done(c, name) ==
    {i \in DOMAIN log[c] : log[c][i].op = name /\ log[c][i].ok}

\* the failed operations `name` in the call's log
Failed(c, name) ==
    {i \in DOMAIN log[c] : log[c][i].op = name /\ ~log[c][i].ok}

\* the successful writes of the call, in the order issued
OkWrites(c) == SelectSeq(log[c], LAMBDA e : e.op = "write" /\ e.ok)

\* the call returned Ok
Succeeded(c) == pc[c] = "returned" /\ result[c].ok

\* the bytes the writes of a log put into the file
RECURSIVE BytesOf(_)
BytesOf(l) == IF l = <<>> THEN 0 ELSE Head(l).bytes + BytesOf(Tail(l))

\* C5: a sanitize call that succeeds has issued exactly 300 writes of
\* 1,048,576 bytes, whatever capacity the volume reported: 100 of zeros,
\* then 100 of 0xFF, then 100 of random data.
C5_ThreeHundredBlockWrites ==
    \A c \in CallIds :
        Succeeded(c) =>
            LET w == OkWrites(c)
            IN /\ Len(w) = 300
               /\ Failed(c, "write") = {}
               /\ \A i \in DOMAIN w :
                    /\ w[i].bytes = 1048576
                    /\ i <= 100 => w[i].what = "zeros"
                    /\ (100 < i /\ i <= 200) => w[i].what = "ones"
                    /\ 200 < i => w[i].what \in RandomFills

\* a call succeeded on a volume whose descriptor reports capacity 0
C5_Witness ==
    \E c \in CallIds :
        /\ Succeeded(c)
        /\ drives[c][Matched(c)].size = 0

\* C6: the megabytes the success summary states are the bytes written over
\* all three passes.
C6_SummaryStatesBytesWritten ==
    \A c \in CallIds :
        Succeeded(c) =>
            result[c].val = SummaryText(args[c].drive_letter,
                                        BytesOf(OkWrites(c)) \div MiB)

\* C7: when a sanitize call returns success the scratch file does not
\* exist, and its remove_file did not fail.
C7_ScratchGoneOnSuccess ==
    \A c \in CallIds :
        Succeeded(c) =>
            /\ ~fs[TempFilePath(args[c].drive_letter)].exists
            /\ Failed(c, "remove_file") = {}
            /\ log[c][Len(log[c])] =
                  Op("remove_file", TRUE, TempFilePath(args[c].drive_letter), 0)

\* a call that created its scratch file has returned success
C7_Witness ==
    \E c \in CallIds :
        /\ Succeeded(c)
        /\ Done(c, "create") # {}
        /\ Done(c, "remove_file") # {}

\* C8: stated of the operation a call issued last, hence of every operation
\* of every call: a write is issued only when every earlier flush succeeded
\* and one flush was done per 100 earlier writes; a flush is issued only
\* after 100 writes since the flush before; the delete is issued, and success
\* returned, only after 300 writes and 3 successful flushes.
C8_FlushBetweenPasses ==
    \A c \in CallIds :
        LET n == Len(log[c])
            early(name) == {i \in Done(c, name) : i < n}
            writes == Cardinality(early("write"))
            syncs == Cardinality(early("sync_all"))
        IN /\ (n > 0 /\ log[c][n].op = "write") =>
                /\ Failed(c, "sync_all") = {}
                /\ syncs = writes \div 100
           /\ (n > 0 /\ log[c][n].op = "sync_all") =>
                /\ writes = 100 * (syncs + 1)
                /\ \A i \in (n - 100)..(n - 1) : i \in early("write")
           /\ (n > 0 /\ log[c][n].op = "remove_file") =>
                /\ syncs = 3
                /\ writes = 300
           /\ Succeeded(c) => Cardinality(Done(c, "sync_all")) = 3

\* the first write of the third pass has just been issued
C8_Witness ==
    \E c \in CallIds :
        /\ log[c] # <<>>
        /\ log[c][Len(log[c])].op = "write"
        /\ Cardinality(Done(c, "sync_all")) = 2
        /\ Cardinality(Done(c, "write")) = 201

\* C10: success is returned only after the create, 300 writes, 3 flushes
\* and the delete all succeeded; a create, write, flush or delete that
\* failed is the last thing the call did, and the call returned its error.
C10_NoPartialSuccess ==
    \A c \in CallIds :
        /\ Succeeded(c) =>
              /\ Cardinality(Done(c, "create")) = 1
              /\ Cardinality(Done(c, "write")) = 300
              /\ Cardinality(Done(c, "sync_all")) = 3
              /\ Cardinality(Done(c, "remove_file")) = 1
        /\ \A i \in DOMAIN log[c] :
              (log[c][i].op \in ScratchOps /\ ~log[c][i].ok) =>
                  /\ i = Len(log[c])
                  /\ pc[c] = "returned"
                  /\ result[c] = Err(log[c][i].what)

\* a write failed after earlier writes had succeeded, and the call returned
C10_Witness ==
    \E c \in CallIds :
        /\ pc[c] = "returned"
        /\ Failed(c, "write") # {}
        /\ Cardinality(Done(c, "write")) > 100

\* C11: on a host whose enumeration primitive fails, detect_drives returns
\* an error, and check_safety returns that same error.
C11_EnumerationFailurePropagates ==
    (EnumerationFailed(host) /\ reply.cmd # "") =>
        /\ ~detect_drives(host).ok
        /\ ~reply.value.ok
        /\ reply.value.val = detect_drives(host).val

\* C12: a check_safety call changes nothing but its own reply: not the
\* filesystem, not the host, not the state of any sanitize call; and a
\* scratch file comes to exist only by the File::create of a sanitize call.
C12_CheckSafetyLeavesNoTrace ==
    [][/\ reply' # reply =>
            (fs' = fs /\ host' = host /\ callVars' = callVars)
       /\ \A p \in DOMAIN fs :
            (~fs[p].exists /\ fs'[p].exists) =>
                \E c \in CallIds :
                    /\ log'[c] = Append(log[c], Op("create", TRUE, p, 0))
                    /\ pc[c] = "create"]_vars

\* check_safety said Ok(true) for a volume and a sanitize call on that
\* volume has run to success
C12_Witness ==
    \E c \in CallIds :
        /\ Succeeded(c)
        /\ reply.cmd = "check_safety"
        /\ reply.arg = args[c].drive_letter
        /\ reply.value.ok

\* the call has done its enumeration and acted on it
PastResolve(c) == PastConfirm(c) /\ args[c].confirm /\ pc[c] # "resolve"

\* C18: on the same host, a confirmed sanitize call gets past its own
\* resolution only if check_safety answers Ok(true) for its identifier; when
\* check_safety answers an error the call has returned that same error, with
\* nothing but the enumeration in its log.
C18_SanitizeRechecksSafety ==
    \A c \in CallIds :
        PastResolve(c) =>
            LET v == check_safety(host, args[c].drive_letter)
            IN /\ v.ok => v.val = TRUE
               /\ (pc[c] # "returned" \/ Len(log[c]) > 1) => v.ok
               /\ ~v.ok =>
                    /\ pc[c] = "returned"
                    /\ result[c] = Err(v.val)
                    /\ Len(log[c]) = 1
                    /\ log[c][1].op = "detect_drives"

\* check_safety was called for the identifier and answered an error, and
\* the confirmed sanitize call on it returned that error
C18_Witness ==
    \E c \in CallIds :
        /\ PastResolve(c)
        /\ reply.cmd = "check_safety"
        /\ reply.arg = args[c].drive_letter
        /\ ~reply.value.ok
        /\ result[c] = reply.value

\* the call is between its File::create and its return
Overwriting(c) == pc[c] \in {"fill", "write", "sync", "remove"}

\* C13: no two sanitize calls are at the same time between scratch create
\* and scratch delete for the same volume identifier.
C13_OneOverwritePerVolume ==
    \A c1, c2 \in CallIds :
        (c1 # c2 /\ Overwriting(c1) /\ Overwriting(c2)) =>
            args[c1].drive_letter # args[c2].drive_letter

\* no other call holds the volume identifier of call c
Alone(c) ==
    \A d \in CallIds \ {c} : args[d].drive_letter # args[c].drive_letter

\* call c holds its scratch file with exactly what it wrote so far, or has
\* returned what its own run determines
OwnRun(c) ==
    LET p == TempFilePath(args[c].drive_letter)
        n == Len(log[c])
    IN /\ Overwriting(c) =>
            /\ fs[p].exists
            /\ file[c].path = p
            /\ Len(fs[p].blocks) = file[c].pos
            /\ (pc[c] = "write" /\ iter[c] > 0) =>
                   fs[p].blocks[file[c].pos] = Block(buffer[c])
       /\ (pc[c] = "returned" /\ host.faults = {}
             /\ args[c].drive_letter \notin host.limited) =>
            IF log[c][n].op = "remove_file"
            THEN /\ result[c] = Ok(SummaryText(args[c].drive_letter, ReportedMB))
                 /\ ~fs[p].exists
            ELSE /\ log[c][n].op = "exists"
                 /\ ~result[c].ok

\* C14: while calls run concurrently on different volume identifiers, a
\* step of one call leaves the scratch file and the result of the other
\* alone, so each scratch file holds exactly what its own call wrote and
\* each call ends as its own run determines.
C14_DifferentVolumesIndependent ==
    [][\A c \in CallIds :
          Alone(c) =>
              /\ \A d \in CallIds \ {c} :
                     TempFilePath(args[d].drive_letter)
                         # TempFilePath(args[c].drive_letter)
              /\ (pc'[c] = pc[c] /\ iter'[c] = iter[c]) =>
                     /\ fs'[TempFilePath(args[c].drive_letter)]
                            = fs[TempFilePath(args[c].drive_letter)]
                     /\ result'[c] = result[c]
              /\ OwnRun(c)']_vars

\* both calls are in the middle of overwriting, each on its own volume
C14_Witness ==
    /\ Alone(1)
    /\ \A c \in CallIds : pc[c] = "write" /\ pass_num[c] = 1 /\ iter[c] > 0

\* C15: sanitize passes its gates in the order confirmation, resolution in
\* a fresh enumeration with the system-volume test, path existence, and only
\* then creates the scratch file; the first gate that fails gives the error
\* and nothing after it runs: an unconfirmed request stops before the
\* enumeration whatever its identifier, a confirmed request for an
\* identifier the enumeration does not list returns "Drive not found", and a
\* rejected request performed no scratch operation.
C15_GatesInOrder ==
    \A c \in CallIds :
        LET l == log[c]
            n == Len(log[c])
            v == check_safety(host, args[c].drive_letter)
        IN pc[c] \notin {"unused", "idle"} =>
            /\ ~args[c].confirm => n = 0
            /\ n >= 1 => l[1].op = "detect_drives"
            /\ n >= 2 => /\ l[1].ok /\ v.ok /\ v.val = TRUE
                         /\ l[2].op = "exists"
            /\ n >= 3 => l[2].ok /\ l[3].op = "create"
            /\ n >= 4 => l[3].ok /\ l[n].op \in ScratchOps
            /\ (pc[c] = "returned" /\ n = 0) =>
                   /\ ~args[c].confirm
                   /\ result[c] = Err("Confirmation required to proceed")
            /\ (pc[c] = "returned" /\ n = 1) =>
                   /\ ~v.ok
                   /\ result[c] = Err(v.val)
                   /\ (detect_drives(host).ok /\ Matched(c) = 0) =>
                          result[c] = Err("Drive not found")
            /\ (pc[c] = "returned" /\ n = 2) =>
                   /\ ~l[2].ok
                   /\ result[c] = Err("Drive " \o args[c].drive_letter
                                       \o " not found or not accessible")

\* a confirmed request for an identifier no volume has was turned down
C15_Witness ==
    \E c \in CallIds :
        /\ pc[c] = "returned"
        /\ args[c].confirm
        /\ args[c].drive_letter = UnknownLetter
        /\ Len(log[c]) = 1
        /\ result[c] = Err("Drive not found")

\* C16: the scratch file never exceeds 100 blocks: each pass sweeps the
\* same region instead of extending the file.
C16_ScratchWithinHundredBlocks ==
    \A p \in DOMAIN fs : Len(fs[p].blocks) <= iterations

\* the position in the log of the call's k-th write when no operation
\* failed before it
WriteIndex(k) == 3 + k + ((k - 1) \div iterations)

\* C17: the 100 blocks of the random pass of a successful call are not all
\* copies of one block, and none of them is the pattern of pass 1 or 2.
C17_RandomPassNotRepeating ==
    \A c \in CallIds :
        Succeeded(c) =>
            LET third == {WriteIndex(k) : k \in (2 * iterations + 1)..(3 * iterations)}
            IN /\ \E i, j \in third : log[c][i].what # log[c][j].what
               /\ \A i \in third : log[c][i].what \notin {"zeros", "ones"}

\* C19: the step in which a write or flush fails after the scratch file was
\* created returns that error and is the call's last: it leaves the
\* filesystem exactly as it was, so nothing is rolled back, retried or
\* deleted, and the scratch file still holds every block written before the
\* failure.
C19_FailureLeavesScratchAsWritten ==
    [][\A c \in CallIds :
          (pc[c] \in {"write", "sync"} /\ pc'[c] = "returned") =>
              LET p == TempFilePath(args[c].drive_letter)
                  n == Len(log'[c])
              IN /\ n = Len(log[c]) + 1
                 /\ log'[c][n].op \in {"write", "sync_all"}
                 /\ ~log'[c][n].ok
                 /\ result'[c] = Err(log'[c][n].what)
                 /\ fs' = fs
                 /\ fs'[p].exists
                 /\ Len(fs'[p].blocks) = file[c].pos
                 /\ file[c].pos = pass_num[c] * iterations + iter[c]
                 /\ (iter[c] > 0) =>
                        fs'[p].blocks[file[c].pos] = Block(buffer[c])]_vars

\* the flush closing the second pass failed and the call returned
C19_Witness ==
    \E c \in CallIds :
        /\ pc[c] = "returned"
        /\ Failed(c, "sync_all") # {}
        /\ fs[TempFilePath(args[c].drive_letter)].exists
        /\ Len(fs[TempFilePath(args[c].drive_letter)].blocks) = 2 * iterations

\* C20: a file that was on the volume before the call, one named
\* temp_sanitize_file included, keeps its content through every step.
C20_ForeignFilesUntouched ==
    [][\A p \in DOMAIN fs : fs[p] = UserFile => fs'[p] = UserFile]_vars

====
